---- MODULE Spec2Model ----
(***************************************************************************)
(* Model of amplifier_app_cli/remote_runner.py: the RemoteRunner class,    *)
(* a CLI adapter over the Ampbox SDK client.  One process constructs a     *)
(* RemoteRunner and invokes one of run / resume / list_sessions.  The SDK  *)
(* is a black box: each of its calls returns a value or raises, chosen     *)
(* nondeterministically from small sets.                                   *)
(*                                                                         *)
(* Text written with click.echo is kept as a tuple of its literal and      *)
(* interpolated parts (glyphs such as the check mark are written in        *)
(* ASCII, column padding of the table is not represented).                 *)
(***************************************************************************)
EXTENDS Naturals, Sequences, FiniteSets

VARIABLES
    pc,          \* position of the process
    op,          \* the method invoked on the runner: "none", "run", "resume", "list"
    sdkInstalled,\* whether `from ampbox_sdk import ...` succeeded
    env,         \* the process environment (os.environ)
    envReads,    \* names passed to os.getenv, in order
    client,      \* self.client
    clientInits, \* keyword arguments of every AmpboxSessionClient(...) call
    args,        \* arguments the caller passed to the method
    session_id,  \* run's local variable session_id
    session,     \* the session object the SDK returned
    calls,       \* calls made on self.client, in order
    out,         \* what click.echo wrote, in order
    exitCode,    \* arguments of the sys.exit calls made: <<>> while the process runs
    exc,         \* the exception raised by the SDK, NoExc if none
    pending,     \* events the stream_events iterator has still to yield
    consumed,    \* events the for loop of _stream_events has taken
    listed       \* what client.list_sessions() returned

vars == <<pc, op, sdkInstalled, env, envReads, client, clientInits, args,
          session_id, session, calls, out, exitCode, exc, pending, consumed, listed>>

----------------------------------------------------------------------------
(* Bounds *)

MaxEvents == 2
MaxSessions == 2

----------------------------------------------------------------------------
(* Values *)

None == "None"

DefaultUrl == "http://localhost:8080"
DefaultBundle == "foundation:default"

EnvUrls == {None, "http://ampbox:9000"}
EnvKeys == {None, "", "k1"}

Prompts == {"fix the bug", "add tests"}
Bundles == {None, "", "custom:dev"}
SessionIds == {"s1", "s2"}

NoClient == [api_url |-> None, api_key |-> None]
NoSession == [id |-> None, bundle |-> None, status |-> None]
NoArgs == [prompt |-> None, bundle |-> None, session_id |-> None]
NoExc == [kind |-> "none", msg |-> "", at |-> ""]

\* Python truthiness of an Optional[str]
Truthy(v) == v # None /\ v # ""

----------------------------------------------------------------------------
(* Exceptions *)

\* AuthenticationError and SessionNotFoundError derive from AmpboxError in the
\* SDK; KeyboardInterrupt and RuntimeError are outside that hierarchy.
Bases(kind) ==
    CASE kind = "AuthenticationError"  -> {"AuthenticationError", "AmpboxError"}
      [] kind = "SessionNotFoundError" -> {"SessionNotFoundError", "AmpboxError"}
      [] kind = "AmpboxError"          -> {"AmpboxError"}
      [] OTHER                         -> {kind}

IsInstance(e, cls) == cls \in Bases(e.kind)

Raisable ==
    { [kind |-> "AuthenticationError", msg |-> "invalid key"],
      [kind |-> "SessionNotFoundError", msg |-> "no such session"],
      [kind |-> "AmpboxError", msg |-> "timeout"],
      [kind |-> "AmpboxError", msg |-> "quota exceeded"],
      [kind |-> "KeyboardInterrupt", msg |-> ""],
      [kind |-> "RuntimeError", msg |-> "boom"] }

----------------------------------------------------------------------------
(* click.echo *)

Echo(text) == [text |-> text, err |-> FALSE, nl |-> TRUE, ev |-> 0]
EchoErr(text) == [text |-> text, err |-> TRUE, nl |-> TRUE, ev |-> 0]
EchoNoNl(text) == [text |-> text, err |-> FALSE, nl |-> FALSE, ev |-> 0]

\* the echoes of one loop iteration, marked with the index of their event
RECURSIVE Tagged(_, _)
Tagged(es, i) ==
    IF es = <<>> THEN <<>>
    ELSE <<[Head(es) EXCEPT !.ev = i]>> \o Tagged(Tail(es), i)

----------------------------------------------------------------------------
(* Events of the stream *)

EmptyDict == <<>>

\* dict.get(key, default)
DataGet(data, key, default) ==
    IF key \in DOMAIN data THEN data[key] ELSE default

Event(type, data) == [type |-> type, data |-> data]

Events ==
    { Event("session:ready", EmptyDict),
      Event("prompt:submit", [prompt |-> "hi"]),
      Event("content:block:text", [text |-> "hello"]),
      Event("content:block:text", [text |-> ""]),
      Event("content:block:text", EmptyDict),
      Event("tool:call", [tool_name |-> "bash"]),
      Event("tool:result", [tool_name |-> "bash", success |-> TRUE]),
      Event("tool:result", EmptyDict),
      Event("provider:request", EmptyDict),
      Event("session:completed", EmptyDict),
      Event("session:failed", [error |-> "out of memory"]) }

HandledTypes ==
    { "session:ready", "prompt:submit", "content:block:text", "tool:call",
      "tool:result", "session:completed", "session:failed" }

\* the two branches of the loop that end in `break`
Breaks(e) == e.type \in {"session:completed", "session:failed"}

\* a text block echoed whatever it holds
TextEchoesUnguarded(e) == << EchoNoNl(<<DataGet(e.data, "text", "")>>) >>

\* the "content:block:text" branch: the text, without newline, unless it is empty
TextEchoes(e) ==
    LET text == DataGet(e.data, "text", "")
    IN  IF Truthy(text) THEN << EchoNoNl(<<text>>) >> ELSE << >>

\* the click.echo calls of one iteration of the loop of _stream_events
EventEchoes(e) ==
    CASE e.type = "session:ready" ->
           << Echo(<<"ok Session initialized">>) >>
      [] e.type = "prompt:submit" ->
           << Echo(<<"\n[New Turn]">>),
              Echo(<<"You: ", DataGet(e.data, "prompt", "")>>) >>
      [] e.type = "content:block:text" -> TextEchoes(e)
      [] e.type = "tool:call" ->
           << Echo(<<"\ntool: Using tool: ", DataGet(e.data, "tool_name", "unknown")>>) >>
      [] e.type = "tool:result" ->
           LET tool_name == DataGet(e.data, "tool_name", "unknown")
               success == DataGet(e.data, "success", FALSE)
           IN  IF success
               THEN << Echo(<<"ok ", tool_name, " completed">>) >>
               ELSE << Echo(<<"x ", tool_name, " failed: ",
                              DataGet(e.data, "error", "Unknown error")>>) >>
      [] e.type = "session:completed" ->
           << Echo(<<"\n\nok Session completed">>) >>
      [] e.type = "session:failed" ->
           << Echo(<<"\n\nx Session failed: ",
                     DataGet(e.data, "error", "Unknown error")>>) >>
      [] OTHER -> << >>

----------------------------------------------------------------------------
(* except clauses *)

Caught(echoes, code) == [caught |-> TRUE, echoes |-> echoes, code |-> code]
Propagates == [caught |-> FALSE, echoes |-> <<>>, code |-> 0]

\* run's clauses with the AmpboxError clause ahead of the AuthenticationError one
RunExceptGenericFirst(e, sid) ==
    IF IsInstance(e, "AmpboxError")
    THEN Caught(<< EchoErr(<<"x Ampbox error: ", e.msg>>) >>, 1)
    ELSE IF IsInstance(e, "AuthenticationError")
    THEN Caught(<< EchoErr(<<"x Authentication failed. Check your API key.">>) >>, 1)
    ELSE IF IsInstance(e, "KeyboardInterrupt")
    THEN Caught(<< Echo(<<"\n\nSession paused.">>) >>, 0)
    ELSE Propagates

\* the except clauses of run, tried in order; sid is run's session_id
RunExcept(e, sid) ==
    IF IsInstance(e, "AuthenticationError")
    THEN Caught(<< EchoErr(<<"x Authentication failed. Check your API key.">>) >>, 1)
    ELSE IF IsInstance(e, "AmpboxError")
    THEN Caught(<< EchoErr(<<"x Ampbox error: ", e.msg>>) >>, 1)
    ELSE IF IsInstance(e, "KeyboardInterrupt")
    THEN Caught(<< Echo(<<"\n\nSession paused.">>) >>
                \o (IF Truthy(sid)
                    THEN << Echo(<<"Resume with: amplifier --sandbox resume ", sid>>) >>
                    ELSE << >>), 0)
    ELSE Propagates

\* resume's clauses with the message naming the literal placeholder, not the id
ResumeExceptUnformatted(e, sid) ==
    IF IsInstance(e, "SessionNotFoundError")
    THEN Caught(<< EchoErr(<<"x Session not found: ", "{session_id}">>) >>, 1)
    ELSE IF IsInstance(e, "AmpboxError")
    THEN Caught(<< EchoErr(<<"x Error: ", e.msg>>) >>, 1)
    ELSE IF IsInstance(e, "KeyboardInterrupt")
    THEN Caught(<< Echo(<<"\n\nSession paused.">>),
                   Echo(<<"Resume with: amplifier --sandbox resume ", sid>>) >>, 0)
    ELSE Propagates

\* the except clauses of resume, tried in order; sid is the caller's session_id
ResumeExcept(e, sid) ==
    IF IsInstance(e, "SessionNotFoundError")
    THEN Caught(<< EchoErr(<<"x Session not found: ", sid>>) >>, 1)
    ELSE IF IsInstance(e, "AmpboxError")
    THEN Caught(<< EchoErr(<<"x Error: ", e.msg>>) >>, 1)
    ELSE IF IsInstance(e, "KeyboardInterrupt")
    THEN Caught(<< Echo(<<"\n\nSession paused.">>),
                   Echo(<<"Resume with: amplifier --sandbox resume ", sid>>) >>, 0)
    ELSE Propagates

\* the except clause of list_sessions
ListExcept(e) ==
    IF IsInstance(e, "AmpboxError")
    THEN Caught(<< EchoErr(<<"x Error: ", e.msg>>) >>, 1)
    ELSE Propagates

\* An exception e raised at `at` inside the try block of method o, after
\* `written` was echoed: the matching handler echoes and exits, otherwise
\* the exception leaves the method.
Raise(o, e, at, sid, written) ==
    LET h == CASE o = "run"    -> RunExcept(e, sid)
               [] o = "resume" -> ResumeExcept(e, sid)
               [] OTHER        -> ListExcept(e)
    IN  /\ exc' = [kind |-> e.kind, msg |-> e.msg, at |-> at]
        /\ out' = written \o h.echoes
        /\ exitCode' = IF h.caught THEN Append(exitCode, h.code) ELSE exitCode
        /\ pc' = IF h.caught THEN "exited" ELSE "raised"

----------------------------------------------------------------------------
(* What the SDK can return *)

BoundedSeq(S, n) == UNION { [1..k -> S] : k \in 0..n }

\* the iterators stream_events can return, as the events they yield
Streams == BoundedSeq(Events, MaxEvents)

SessionRows ==
    { [id |-> "s1", status |-> "running", bundle |-> DefaultBundle,
       created_at |-> [ymd |-> "2025-01-02", hm |-> "10:30", sec |-> "07"]],
      [id |-> "s2", status |-> "paused", bundle |-> "custom:dev",
       created_at |-> [ymd |-> "2025-01-02", hm |-> "10:30", sec |-> "59"]],
      [id |-> "s3", status |-> "completed", bundle |-> DefaultBundle,
       created_at |-> [ymd |-> "2024-12-31", hm |-> "23:59", sec |-> "00"]] }

SessionLists == BoundedSeq(SessionRows, MaxSessions)

\* created_at.strftime('%Y-%m-%d %H:%M')
Strftime(t) == <<t.ymd, t.hm>>

----------------------------------------------------------------------------
(* Construction *)

\* os.getenv(name, default)
Getenv(name, default) == IF env[name] = None THEN default ELSE env[name]

\* the keyword arguments with AMPBOX_URL read without its default
ClientKwargsNoDefault ==
    [api_url |-> Getenv("AMPBOX_URL", None),
     api_key |-> Getenv("AMPBOX_KEY", None)]

\* the keyword arguments _create_client computes from the environment
ClientKwargs ==
    [api_url |-> Getenv("AMPBOX_URL", DefaultUrl),
     api_key |-> Getenv("AMPBOX_KEY", None)]

ClickException(msg, at) == [kind |-> "ClickException", msg |-> msg, at |-> at]

\* RemoteRunner(): __init__ and the _create_client it calls
Construct ==
    /\ pc = "start"
    /\ IF ~sdkInstalled
       THEN /\ exc' = ClickException("Ampbox SDK not installed", "__init__")
            /\ pc' = "raised"
            /\ UNCHANGED <<envReads, client, clientInits>>
       ELSE /\ envReads' = envReads \o <<"AMPBOX_URL", "AMPBOX_KEY">>
            /\ IF ~Truthy(ClientKwargs.api_key)
               THEN /\ exc' = ClickException("Ampbox API key required", "_create_client")
                    /\ pc' = "raised"
                    /\ UNCHANGED <<client, clientInits>>
               ELSE /\ clientInits' = Append(clientInits, ClientKwargs)
                    /\ client' = ClientKwargs
                    /\ pc' = "ready"
                    /\ UNCHANGED exc
    /\ UNCHANGED <<op, sdkInstalled, env, args, session_id, session, calls, out,
                   exitCode, pending, consumed, listed>>

----------------------------------------------------------------------------
(* run *)

\* the default applied only to None, as `if bundle is None` would
BundleOrDefaultIsNone(bundle) == IF bundle = None THEN DefaultBundle ELSE bundle

\* bundle = bundle or "foundation:default"
BundleOrDefault(bundle) == IF Truthy(bundle) THEN bundle ELSE DefaultBundle

\* the id the caller passed in, instead of the id of the returned session
StreamArgCaller == args.session_id

\* the argument run and resume pass to _stream_events
StreamArg == session.id

\* run(prompt, bundle), up to the call of _stream_events
Run(prompt, bundle) ==
    /\ pc = "ready"
    /\ op' = "run"
    /\ args' = [prompt |-> prompt, bundle |-> bundle, session_id |-> None]
    /\ LET b == BundleOrDefault(bundle)
           begun == out \o << Echo(<<"Creating remote session on Ampbox...\n">>) >>
       IN  /\ calls' = Append(calls, [method |-> "create_session", prompt |-> prompt,
                                      bundle |-> b, session_id |-> None])
           /\ \/ \E id \in SessionIds :
                   LET s == [id |-> id, bundle |-> b, status |-> "running"]
                   IN  /\ session' = s
                       /\ session_id' = s.id
                       /\ out' = begun \o
                                 << Echo(<<"ok Session created: ", s.id>>),
                                    Echo(<<"ok Bundle: ", s.bundle>>),
                                    Echo(<<"ok Status: ", s.status, "\n">>),
                                    Echo(<<"Streaming events...\n">>) >>
                       /\ pc' = "stream"
                       /\ UNCHANGED <<exc, exitCode>>
              \/ \E e \in Raisable :
                   /\ Raise("run", e, "create_session", None, begun)
                   /\ UNCHANGED <<session, session_id>>
    /\ UNCHANGED <<sdkInstalled, env, envReads, client, clientInits, pending,
                   consumed, listed>>

----------------------------------------------------------------------------
(* resume *)

\* resume(session_id), up to the call of _stream_events
Resume(sid) ==
    /\ pc = "ready"
    /\ op' = "resume"
    /\ args' = [prompt |-> None, bundle |-> None, session_id |-> sid]
    /\ LET begun == out \o << Echo(<<"Resuming session ", sid, "...\n">>) >>
       IN  /\ calls' = Append(calls, [method |-> "resume_session", prompt |-> None,
                                      bundle |-> None, session_id |-> sid])
           /\ \/ \E id \in SessionIds :
                   LET s == [id |-> id, bundle |-> DefaultBundle, status |-> "running"]
                   IN  /\ session' = s
                       /\ out' = begun \o
                                 << Echo(<<"ok Session resumed: ", s.id>>),
                                    Echo(<<"ok Status: ", s.status, "\n">>),
                                    Echo(<<"Streaming events...\n">>) >>
                       /\ pc' = "stream"
                       /\ UNCHANGED <<exc, exitCode>>
              \/ \E e \in Raisable :
                   /\ Raise("resume", e, "resume_session", sid, begun)
                   /\ UNCHANGED session
    /\ UNCHANGED <<sdkInstalled, env, envReads, client, clientInits, session_id,
                   pending, consumed, listed>>

----------------------------------------------------------------------------
(* list_sessions *)

Header == Echo(<<"ID", "Status", "Bundle", "Created">>)
Separator == Echo(<<"-", "*", "85">>)
Row(sess) == Echo(<<sess.id, sess.status, sess.bundle>> \o Strftime(sess.created_at))

\* the table with its rows in reverse order
TableReversed(sessions) ==
    << Header, Separator >> \o
    [i \in 1..Len(sessions) |-> Row(sessions[Len(sessions) + 1 - i])]

\* the table: header, separator and one row per session, in order
Table(sessions) ==
    << Header, Separator >> \o [i \in 1..Len(sessions) |-> Row(sessions[i])]

ListSessions ==
    /\ pc = "ready"
    /\ op' = "list"
    /\ calls' = Append(calls, [method |-> "list_sessions", prompt |-> None,
                               bundle |-> None, session_id |-> None])
    /\ \/ \E sessions \in SessionLists :
            /\ listed' = sessions
            /\ out' = out \o (IF sessions = <<>>
                              THEN << Echo(<<"No sessions found.">>) >>
                              ELSE Table(sessions))
            /\ pc' = "returned"
            /\ UNCHANGED <<exc, exitCode>>
       \/ \E e \in Raisable :
            /\ Raise("list", e, "list_sessions", None, out)
            /\ UNCHANGED listed
    /\ UNCHANGED <<sdkInstalled, env, envReads, client, clientInits, args,
                   session_id, session, pending, consumed>>

----------------------------------------------------------------------------
(* _stream_events *)

\* the caller's session id, as the except clauses of the running method use it
HandlerSid == IF op = "run" THEN session_id ELSE args.session_id

\* self.client.stream_events(session_id): the iterator of the for loop
StreamEvents ==
    /\ pc = "stream"
    /\ calls' = Append(calls, [method |-> "stream_events", prompt |-> None,
                               bundle |-> None, session_id |-> StreamArg])
    /\ \E evs \in Streams : pending' = evs
    /\ pc' = "loop"
    /\ UNCHANGED <<op, sdkInstalled, env, envReads, client, clientInits, args,
                   session_id, session, out, exitCode, exc, consumed, listed>>

\* a loop whose terminal branches lack their `break`
LoopsOnAlways(e) == TRUE

\* whether the loop goes on after the body ran for e
LoopsOn(e) == ~Breaks(e)

\* one iteration: the iterator yields its next event and the body runs
StreamNext ==
    /\ pc = "loop"
    /\ pending # <<>>
    /\ LET e == Head(pending)
       IN  /\ consumed' = Append(consumed, e)
           /\ pending' = Tail(pending)
           /\ out' = out \o Tagged(EventEchoes(e), Len(consumed) + 1)
           /\ pc' = IF LoopsOn(e) THEN "loop" ELSE "returned"
    /\ UNCHANGED <<op, sdkInstalled, env, envReads, client, clientInits, args,
                   session_id, session, calls, exitCode, exc, listed>>

\* the iterator is exhausted: the loop, _stream_events and the method return
StreamStop ==
    /\ pc = "loop"
    /\ pending = <<>>
    /\ pc' = "returned"
    /\ UNCHANGED <<op, sdkInstalled, env, envReads, client, clientInits, args,
                   session_id, session, calls, out, exitCode, exc, pending,
                   consumed, listed>>

\* the iterator raises instead of yielding (or the user interrupts the wait)
StreamRaise ==
    /\ pc = "loop"
    /\ \E e \in Raisable : Raise(op, e, "stream_events", HandlerSid, out)
    /\ UNCHANGED <<op, sdkInstalled, env, envReads, client, clientInits, args,
                   session_id, session, calls, pending, consumed, listed>>

----------------------------------------------------------------------------
(* The process *)

Init ==
    /\ pc = "start"
    /\ op = "none"
    /\ sdkInstalled \in BOOLEAN
    /\ \E url \in EnvUrls, key \in EnvKeys :
         env = [AMPBOX_URL |-> url, AMPBOX_KEY |-> key]
    /\ envReads = <<>>
    /\ client = NoClient
    /\ clientInits = <<>>
    /\ args = NoArgs
    /\ session_id = None
    /\ session = NoSession
    /\ calls = <<>>
    /\ out = <<>>
    /\ exitCode = <<>>
    /\ exc = NoExc
    /\ pending = <<>>
    /\ consumed = <<>>
    /\ listed = <<>>

Next ==
    \/ Construct
    \/ \E prompt \in Prompts, bundle \in Bundles : Run(prompt, bundle)
    \/ \E sid \in SessionIds : Resume(sid)
    \/ ListSessions
    \/ StreamEvents
    \/ StreamNext
    \/ StreamStop
    \/ StreamRaise

Spec == Init /\ [][Next]_vars

----------------------------------------------------------------------------
(* Properties *)

Last(s) == s[Len(s)]

CallsOf(m) == { i \in 1..Len(calls) : calls[i].method = m }

\* the process ended in sys.exit(code), its only sys.exit call
Exited(code) == pc = "exited" /\ exitCode = <<code>>

\* the number of echoes the i-th consumed event produced
NumOut(i) == Cardinality({ j \in 1..Len(out) : out[j].ev = i })

AuthMessage == EchoErr(<<"x Authentication failed. Check your API key.">>)

\* C1: in run, wherever the failure is raised (create_session or the event
\* stream), an authentication failure exits with code 1 and the authentication
\* message and never the generic one, any other Ampbox error exits with code 1
\* and 'Ampbox error: <e>', and a keyboard interrupt exits with code 0.
C1_RunFailuresExit ==
    (op = "run" /\ exc # NoExc) =>
        /\ IsInstance(exc, "AuthenticationError") =>
              /\ Exited(1)
              /\ Last(out) = AuthMessage
              /\ \A i \in 1..Len(out) : out[i].text[1] # "x Ampbox error: "
        /\ (IsInstance(exc, "AmpboxError") /\ ~IsInstance(exc, "AuthenticationError")) =>
              /\ Exited(1)
              /\ Last(out) = EchoErr(<<"x Ampbox error: ", exc.msg>>)
        /\ IsInstance(exc, "KeyboardInterrupt") => Exited(0)

\* an authentication failure raised by the stream after an event was shown
C1_Witness ==
    /\ op = "run"
    /\ exc.kind = "AuthenticationError"
    /\ exc.at = "stream_events"
    /\ consumed # <<>>
    /\ Exited(1)

\* C2: in resume, session-not-found from resume_session exits with code 1, the
\* message names the id the caller requested and stream_events is never called;
\* any other Ampbox error exits with code 1 and 'Error: <e>'; a keyboard
\* interrupt exits with code 0.
C2_ResumeFailuresExit ==
    (op = "resume" /\ exc # NoExc) =>
        /\ (IsInstance(exc, "SessionNotFoundError") /\ exc.at = "resume_session") =>
              /\ Exited(1)
              /\ Last(out) = EchoErr(<<"x Session not found: ", args.session_id>>)
              /\ CallsOf("stream_events") = {}
        /\ (IsInstance(exc, "AmpboxError") /\ ~IsInstance(exc, "SessionNotFoundError")) =>
              /\ Exited(1)
              /\ Last(out) = EchoErr(<<"x Error: ", exc.msg>>)
        /\ IsInstance(exc, "KeyboardInterrupt") => Exited(0)

\* resume_session reported that session s2 does not exist
C2_Witness ==
    /\ op = "resume"
    /\ exc.kind = "SessionNotFoundError"
    /\ exc.at = "resume_session"
    /\ args.session_id = "s2"
    /\ Exited(1)

\* C3: construction fails with a ClickException before any environment read
\* when the SDK is missing; fails with a ClickException without instantiating
\* the client when AMPBOX_KEY is unset or empty; otherwise instantiates the
\* client exactly once with api_key = AMPBOX_KEY and api_url = AMPBOX_URL, or
\* 'http://localhost:8080' when AMPBOX_URL is unset.
C3_ClientFromEnvironment ==
    pc # "start" =>
        IF ~sdkInstalled
        THEN /\ pc = "raised" /\ exc.kind = "ClickException"
             /\ envReads = <<>>
             /\ clientInits = <<>> /\ client = NoClient
        ELSE IF env.AMPBOX_KEY \in {None, ""}
        THEN /\ pc = "raised" /\ exc.kind = "ClickException"
             /\ clientInits = <<>> /\ client = NoClient
        ELSE /\ exc.kind # "ClickException"
             /\ clientInits =
                  << [api_key |-> env.AMPBOX_KEY,
                      api_url |-> IF env.AMPBOX_URL = None
                                  THEN "http://localhost:8080"
                                  ELSE env.AMPBOX_URL] >>
             /\ client = clientInits[1]

\* a runner constructed with AMPBOX_KEY set and AMPBOX_URL unset
C3_Witness ==
    /\ pc = "ready"
    /\ env.AMPBOX_URL = None
    /\ client.api_url = "http://localhost:8080"
    /\ client.api_key = "k1"

\* C4: run calls create_session exactly once, with the caller's prompt and
\* with the caller's bundle, or 'foundation:default' when the bundle is None
\* or the empty string.
C4_CreateSessionArguments ==
    op = "run" =>
        /\ Cardinality(CallsOf("create_session")) = 1
        /\ calls[1].method = "create_session"
        /\ calls[1].prompt = args.prompt
        /\ calls[1].bundle = IF args.bundle \in {None, ""}
                             THEN "foundation:default"
                             ELSE args.bundle

\* run('add tests', '') went through to the end of its stream
C4_Witness ==
    /\ op = "run"
    /\ pc = "returned"
    /\ args.prompt = "add tests"
    /\ args.bundle = ""
    /\ calls[1].bundle = "foundation:default"

\* an event for which the loop body writes nothing: a type no branch handles,
\* or a text block whose text is missing or empty
Silent(e) ==
    \/ e.type \notin HandledTypes
    \/ e.type = "content:block:text" /\ DataGet(e.data, "text", "") = ""

\* C5 as stated: every event consumed, up to and including the first terminal
\* one, produces at least one echo.
C5_EveryEventEchoed ==
    \A i \in 1..Len(consumed) : NumOut(i) >= 1

\* C5, amended: every event consumed produces at least one echo, except events
\* of a type no branch handles and text blocks with missing or empty text,
\* which produce none.
C5_EchoedUnlessSilent ==
    \A i \in 1..Len(consumed) :
        IF Silent(consumed[i]) THEN NumOut(i) = 0 ELSE NumOut(i) >= 1

\* a stream with an empty text block followed by a displayed event
C5_Witness ==
    /\ Len(consumed) = 2
    /\ consumed[1] = Event("content:block:text", [text |-> ""])
    /\ NumOut(1) = 0
    /\ NumOut(2) >= 1

\* C6: the loop stops at the first session:completed / session:failed event:
\* nothing after it is consumed, its line is the last output of the loop,
\* outputs come in the order of their events, and a stream without terminal
\* event is consumed to its end.
C6_StopsAtFirstTerminal ==
    /\ \A i \in 1..Len(consumed) : i < Len(consumed) => ~Breaks(consumed[i])
    /\ (consumed # <<>> /\ Breaks(Last(consumed))) =>
          /\ pc = "returned"
          /\ exc = NoExc
          /\ Last(out).ev = Len(consumed)
          /\ Last(out).text[1] \in {"\n\nok Session completed", "\n\nx Session failed: "}
    /\ \A j, k \in 1..Len(out) :
          (j < k /\ out[j].ev > 0 /\ out[k].ev > 0) => out[j].ev <= out[k].ev
    /\ (pc = "returned" /\ op \in {"run", "resume"}
          /\ \A i \in 1..Len(consumed) : ~Breaks(consumed[i])) => pending = <<>>

\* the loop ended on a terminal event that was not the last one of the stream
C6_Witness ==
    /\ pc = "returned"
    /\ Len(consumed) = 1
    /\ Breaks(consumed[1])
    /\ pending # <<>>
    /\ Last(out).ev = 1

\* C7: list_sessions calls client.list_sessions exactly once and never
\* stream_events; an empty result prints only 'No sessions found.' and returns
\* without exiting; n >= 1 sessions print a header, a separator and n rows in
\* the order returned; an Ampbox error exits with code 1.
C7_ListSessions ==
    op = "list" =>
        /\ Len(calls) = 1 /\ calls[1].method = "list_sessions"
        /\ exc = NoExc =>
              /\ pc = "returned"
              /\ exitCode = <<>>
              /\ IF listed = <<>>
                 THEN out = << Echo(<<"No sessions found.">>) >>
                 ELSE /\ Len(out) = Len(listed) + 2
                      /\ out[1] = Header
                      /\ out[2] = Separator
                      /\ \A i \in 1..Len(listed) :
                            /\ out[i + 2].text[1] = listed[i].id
                            /\ out[i + 2].text[2] = listed[i].status
                            /\ out[i + 2].text[3] = listed[i].bundle
        /\ IsInstance(exc, "AmpboxError") => Exited(1)

\* two different sessions were listed
C7_Witness ==
    /\ op = "list"
    /\ Len(listed) = 2
    /\ listed[1].id # listed[2].id
    /\ Len(out) = 4

\* C8: in run and resume, stream_events is called at most once, only after
\* create_session / resume_session returned, with the id of the session the
\* SDK returned; it is never called when that call failed or was interrupted.
C8_StreamAfterSession ==
    op \in {"run", "resume"} =>
        /\ Cardinality(CallsOf("stream_events")) <= 1
        /\ \A i \in CallsOf("stream_events") :
              /\ i = 2
              /\ calls[1].method \in {"create_session", "resume_session"}
              /\ session # NoSession
              /\ calls[i].session_id = session.id
        /\ exc.at \in {"create_session", "resume_session"} =>
              CallsOf("stream_events") = {}

\* resume('s1') streamed from the session s2 that the SDK returned
C8_Witness ==
    /\ op = "resume"
    /\ args.session_id = "s1"
    /\ session.id = "s2"
    /\ CallsOf("stream_events") = {2}
    /\ calls[2].session_id = "s2"

====
